---- MODULE Spec2Model ----
(***************************************************************************)
(* Model of the document-conversion servers of mcp-deploy:                 *)
(*   improved_mcp_server.py  (validated, staged, uniquified conversions,   *)
(*                            cleanup_old_files)                           *)
(*   server.py               (docling / MarkItDown conversion next to the  *)
(*                            input file)                                  *)
(*   mcp_test.py             (tempfile based conversions)                  *)
(*   git_server.py           (conversion of every file of a folder)        *)
(* The servers share one file system.  Every tool call runs in its own     *)
(* worker, so calls interleave at their file-system and backend steps.     *)
(***************************************************************************)
EXTENDS Integers, Sequences, FiniteSets, TLC

(* ------------------------------ bounds --------------------------------- *)
\* number of workers that can run a tool call at the same time
NumReq == 2
\* number of tool calls started in one behaviour
MaxCalls == 2
\* number of distinct values the 8-hex-digit uuid prefix is drawn from
NumTokens == 2
\* number of clock advances in one behaviour
MaxTicks == 1

Reqs == 1..NumReq
Tokens == 1..NumTokens

(* --------------------------- configuration ----------------------------- *)
ALLOWED_EXTENSIONS == {".pdf", ".docx", ".doc", ".txt", ".html", ".xlsx", ".pptx"}
MAX_FILE_SIZE == 50 * 1024 * 1024
\* retention window of cleanup_old_files, in seconds
RETENTION == 3600

TMP_DIR == <<"tmp">>
TEMP_BASE == <<"tmp", "mcp_converter">>
UPLOAD_DIR == TEMP_BASE \o <<"uploads">>
OUTPUT_DIR == TEMP_BASE \o <<"outputs">>

(* ------------------------------- paths --------------------------------- *)
\* A path is a directory (a sequence of segments, ".." included) and a file
\* name  <pre>_<base>_<post><ext> ; pre and post are uuid tokens, 0 when the
\* name has no such part.
MkPath(dir, base, pre, post, ext) ==
    [dir |-> dir, base |-> base, pre |-> pre, post |-> post, ext |-> ext]

NoPath == MkPath(<<"<none>">>, "", 0, 0, "")

\* str.lower() on an extension
Lower(ext) ==
    CASE ext = ".TXT" -> ".txt"
      [] ext = ".PDF" -> ".pdf"
      [] ext = ".MD"  -> ".md"
      [] OTHER -> ext

\* os.path.normpath on the directory part: ".." removes the segment before it
RECURSIVE NormDir(_)
NormDir(dir) ==
    IF dir = <<>> THEN <<>>
    ELSE LET init == NormDir(SubSeq(dir, 1, Len(dir) - 1))
             last == dir[Len(dir)]
         IN  IF last = ".."
             THEN IF init = <<>> THEN <<>> ELSE SubSeq(init, 1, Len(init) - 1)
             ELSE Append(init, last)

\* os.path.abspath of an absolute path: lexical, symbolic links are not followed
abspath(p) == [p EXCEPT !.dir = NormDir(p.dir)]

\* str.startswith('/tmp/') or str.startswith('/shared/') on an absolute path
InAllowedRoot(p) == Len(p.dir) >= 1 /\ p.dir[1] \in {"tmp", "shared"}

\* os.path.join(dir, name) / Path.__truediv__ with a relative name
JoinPath(dir, name) == [name EXCEPT !.dir = dir \o name.dir]

\* Path(filename).name / os.path.basename: the last component only
Basename(p) == [p EXCEPT !.dir = <<>>]

\* Path.with_suffix(".md")
WithSuffixMd(p) == [p EXCEPT !.ext = ".md"]

(* ---------------------------- file system ------------------------------ *)
\* symbolic links present on the server: link path -> target path
SymLinks ==
    MkPath(<<"tmp">>, "link", 0, 0, ".txt") :> MkPath(<<"etc">>, "secret", 0, 0, ".txt")

\* the file a path names once the kernel has walked it: ".." segments and a
\* symbolic link in the last component are followed
Resolve(p) ==
    LET n == abspath(p)
    IN  IF n \in DOMAIN SymLinks THEN SymLinks[n] ELSE n

\* content of a file: what it holds and how many bytes
Data(body, size) == [body |-> body, size |-> size]

\* a file: its content, its change time, and how it came to be there:
\* "given" (on the server before it started), "staged" (the input of a
\* content-based call) or "artifact" (the output of a call)
File(data, ctime, role) == [data |-> data, ctime |-> ctime, role |-> role]

(* ------------------------------ payloads ------------------------------- *)
\* An encoded payload: n base64 alphabet characters followed by pad '='
\* characters, encoding the content named body.
Payload(n, pad, body) == [n |-> n, pad |-> pad, body |-> body]

\* base64.b64decode(s): binascii.Error when the padding is incorrect
B64Valid(p) ==
    \/ p.n % 4 = 0
    \/ p.n % 4 = 2 /\ p.pad >= 2
    \/ p.n % 4 = 3 /\ p.pad >= 1

B64Size(p) == (p.n \div 4) * 3 + (CASE p.n % 4 = 2 -> 1 [] p.n % 4 = 3 -> 2 [] OTHER -> 0)

\* a decoder that never rejects a payload
b64decode_lenient(p) == [ok |-> TRUE, data |-> Data(p.body, B64Size(p))]

b64decode(p) ==
    IF B64Valid(p) THEN [ok |-> TRUE, data |-> Data(p.body, B64Size(p))]
    ELSE [ok |-> FALSE, data |-> Data("", 0)]

\* the payload written as utf-8 text (server.py's fallback): the characters
\* themselves, which for a well-formed payload are base64 text
AsText(p) == Data(IF B64Valid(p) THEN "base64" ELSE p.body, p.n + p.pad)

(* ------------------------------ backends ------------------------------- *)
\* Outcome of a call: kind "ok" (a success value is returned), "fail" (a
\* failure message is returned) or "raise" (an exception leaves the call).
\* why names the failure, text is the converted text carried by the value,
\* loc the output location it names.
Res(kind, why, text, loc) == [kind |-> kind, why |-> why, text |-> text, loc |-> loc]

NoRes == Res("", "", "", NoPath)

\* the conversion libraries are deterministic in the bytes they are given:
\* they fail on content they cannot parse and on a file that is not there
Convertible(f, p) ==
    /\ Resolve(p) \in DOMAIN f
    /\ f[Resolve(p)].data.body \notin {"corrupt", "partial"}

\* MarkItDown(...).convert(path).text_content
MarkItDownText(f, p) == f[Resolve(p)].data.body

(* ------------------------------ validator ------------------------------ *)
\* a validator that has lost the extension check
validate_without_extension_check(filename, content_size) ==
    IF content_size > MAX_FILE_SIZE
    THEN [ok |-> FALSE, why |-> "too_large"]
    ELSE [ok |-> TRUE, why |-> "valid"]

\* a validator whose size check lets the first byte above the limit through
validate_off_by_one(filename, content_size) ==
    IF Lower(filename.ext) \notin ALLOWED_EXTENSIONS
    THEN [ok |-> FALSE, why |-> "unsupported_type"]
    ELSE IF content_size > MAX_FILE_SIZE + 1
    THEN [ok |-> FALSE, why |-> "too_large"]
    ELSE [ok |-> TRUE, why |-> "valid"]

\* a validator that checks the size before the extension
validate_size_first(filename, content_size) ==
    IF content_size > MAX_FILE_SIZE
    THEN [ok |-> FALSE, why |-> "too_large"]
    ELSE IF Lower(filename.ext) \notin ALLOWED_EXTENSIONS
    THEN [ok |-> FALSE, why |-> "unsupported_type"]
    ELSE [ok |-> TRUE, why |-> "valid"]

\* validate_file_content(filename, content_size) -> (is_valid, message)
validate_file_content(filename, content_size) ==
    IF Lower(filename.ext) \notin ALLOWED_EXTENSIONS
    THEN [ok |-> FALSE, why |-> "unsupported_type"]
    ELSE IF content_size > MAX_FILE_SIZE
    THEN [ok |-> FALSE, why |-> "too_large"]
    ELSE [ok |-> TRUE, why |-> "valid"]

(* -------------------------------- inputs ------------------------------- *)
\* caller-supplied file names of the content-based tools: two accepted
\* types (one in upper case), an unsupported type, no extension
Filenames ==
    { MkPath(<<>>, "a", 0, 0, ".txt"),
      MkPath(<<>>, "a", 0, 0, ".PDF"),
      MkPath(<<>>, "a", 0, 0, ".exe"),
      MkPath(<<>>, "a", 0, 0, "") }

\* file names given to server.py, which accepts every type
ServerFilenames ==
    { MkPath(<<>>, "a", 0, 0, ".txt"),
      MkPath(<<>>, "a", 0, 0, ".PDF"),
      MkPath(<<>>, "a", 0, 0, ".md") }

\* a caller-supplied file name with directory separators and a ".." segment:
\* ../etc/secret.txt
DirFilenames ==
    { MkPath(<<"..", "etc">>, "secret", 0, 0, ".txt") }

\* encoded payloads: well formed (12 bytes), unparsable by the backend,
\* incorrectly padded, exactly the maximum size, one byte above it
Payloads ==
    { Payload(16, 0, "good"),
      Payload(16, 0, "corrupt"),
      Payload(5, 0, "good"),
      Payload(69905067, 1, "good"),
      Payload(69905068, 0, "good") }

\* the payloads given to the tools that have no size limit
SmallPayloads == {p \in Payloads : p.n <= 16}

NoPayload == Payload(0, 0, "")

(* -------------------------------- state -------------------------------- *)
VARIABLES
    fs,      \* the file system: path -> file
    req,     \* worker -> the tool call it is running
    calls,   \* tool calls started so far
    now,     \* the clock, in seconds
    ticks    \* clock advances so far

vars == <<fs, req, calls, now, ticks>>

\* a worker with no call
IdleReq ==
    [ op |-> "", pc |-> "idle",
      filename |-> NoPath, payload |-> NoPayload, output_name |-> "",
      data |-> Data("", 0),   \* file_content / result.text_content in hand
      temp |-> NoPath,        \* temp_file / tmp_path / input_path
      listing |-> {},         \* artifacts cleanup_old_files has still to visit
      count |-> 0,            \* artifacts cleanup_old_files has removed
      result |-> NoRes,
      staged |-> {},          \* files this call created or wrote while staging
      wrote |-> {},           \* output files this call wrote
      over |-> {},            \* files this call wrote over: they were there already
      removed |-> {},         \* artifacts cleanup_old_files removed
      reads |-> {},           \* files whose content this call handed to a backend
      stage_failed |-> FALSE,   \* a write of the staged file raised
      release_failed |-> FALSE, \* the removal of the staged file raised
      processed |-> {},       \* convert_folder: the files in its list processed
      skipped |-> {},         \* convert_folder: the files in its list skipped
      backend |-> <<>> ]      \* backends this call invoked, in order

Busy(r) == req[r].pc \notin {"idle", "done"}
Done(r) == req[r].pc = "done"

\* the files already on the server when it starts
\* (inputs, three artifacts written 30, 61 and 120 minutes ago, and a
\* folder with two convertible files of the same stem and an unparsable one)
StartTime == 120 * 60

InitFs ==
    MkPath(<<"tmp">>, "a", 0, 0, ".txt") :> File(Data("good", 12), 0, "given")
    @@ MkPath(<<"tmp">>, "b", 0, 0, ".exe") :> File(Data("good", 12), 0, "given")
    @@ MkPath(<<"etc">>, "secret", 0, 0, ".txt") :> File(Data("good", 12), 0, "given")
    @@ MkPath(<<"repo">>, "a", 0, 0, ".txt") :> File(Data("good", 12), 0, "given")
    @@ MkPath(<<"repo">>, "a", 0, 0, ".pdf") :> File(Data("good", 12), 0, "given")
    @@ MkPath(<<"repo">>, "b", 0, 0, ".txt") :> File(Data("corrupt", 12), 0, "given")
    @@ MkPath(OUTPUT_DIR, "m30", 0, 0, ".md")
         :> File(Data("good", 12), StartTime - 30 * 60, "artifact")
    @@ MkPath(OUTPUT_DIR, "m61", 0, 0, ".md")
         :> File(Data("good", 12), StartTime - 61 * 60, "artifact")
    @@ MkPath(OUTPUT_DIR, "m120", 0, 0, ".md")
         :> File(Data("good", 12), StartTime - 120 * 60, "artifact")

Init ==
    /\ fs = InitFs
    /\ req = [r \in Reqs |-> IdleReq]
    /\ calls = 0
    /\ now = StartTime
    /\ ticks = 0

\* A call that has reached "done" hands its value (or exception) to the caller
\* before anything else happens: the hand-over touches nothing shared.
Ready == \A q \in Reqs : req[q].pc # "done"

\* worker r is at step pc of tool op
At(r, op, pc) == Ready /\ req[r].op = op /\ req[r].pc = pc

\* a worker takes a new call; workers are taken in order (they are
\* interchangeable)
NewCall(r) ==
    /\ Ready
    /\ req[r].pc = "idle"
    /\ \A q \in Reqs : q < r => req[q].pc # "idle"
    /\ calls < MaxCalls
    /\ calls' = calls + 1

Call(op, filename, payload, output_name) ==
    [IdleReq EXCEPT !.op = op, !.filename = filename,
                    !.payload = payload, !.output_name = output_name]

\* open(path, "w"/"wb") and write: the file is created or truncated, then
\* holds data, stamped with the time of the write
Put(f, p, data, role) == [k \in DOMAIN f \cup {Resolve(p)} |->
                            IF k = Resolve(p) THEN File(data, now, role) ELSE f[k]]

\* a write that failed part-way (disk full): the file is there, incomplete
PutPartial(f, p, role) == Put(f, p, Data("partial", 0), role)

\* os.remove / Path.unlink
Remove(f, p) == [k \in DOMAIN f \ {Resolve(p)} |-> f[k]]

\* os.path.exists / Path.exists
Exists(f, p) == Resolve(p) \in DOMAIN f

\* uuid.uuid4().hex[:8]: any value may come out, one that a file name on the
\* server already carries or a new one.  New values are interchangeable, so
\* the smallest unused one stands for all of them.
UsedTokens(f) == {t \in Tokens : \E k \in DOMAIN f : k.pre = t \/ k.post = t}

uuid4(f) ==
    LET unused == Tokens \ UsedTokens(f)
    IN  UsedTokens(f) \cup {t \in unused : \A u \in unused : t <= u}

\* what open(p, "w") destroys: the file that is there already, if any
Over(f, p) ==
    IF Exists(f, p) THEN {[path |-> Resolve(p), role |-> f[Resolve(p)].role]} ELSE {}

(* ------------- improved_mcp_server.convert_file_from_base64 ------------ *)
\* save_uploaded_file's name: <uuid4().hex[:8]>_<Path(filename).name>
StagedPath(filename, t) ==
    JoinPath(UPLOAD_DIR, [Basename(filename) EXCEPT !.pre = t])

\* save_uploaded_file (47-57) as called at line 87: open(file_path, "wb")
\* creates or truncates the file; when f.write fails (disk full) the file
\* stays behind and the exception reaches line 96 with temp_file still None
save_uploaded_file(c, t, written) ==
    LET p == StagedPath(c.filename, t)
        s == [c EXCEPT !.staged = {Resolve(p)}, !.over = Over(fs, p)]
    IN  IF written
        THEN [s EXCEPT !.pc = "convert", !.temp = p]
        ELSE [s EXCEPT !.pc = "done", !.stage_failed = TRUE,
                       !.result = Res("fail", "conversion_failed", "", NoPath)]

\* lines 72-87: decode the payload, validate name and size, stage the bytes;
\* the file name is one of names
B64CallOn(r, names) ==
    /\ NewCall(r)
    /\ \E filename \in names, payload \in Payloads, t \in uuid4(fs), written \in BOOLEAN :
         LET d == b64decode(payload)
             v == validate_file_content(filename, d.data.size)
             c == Call("convert_file_from_base64", filename, payload, "")
             p == StagedPath(filename, t)
         IN  IF ~d.ok
             THEN /\ req' = [req EXCEPT ![r] = [c EXCEPT !.pc = "done",
                               !.result = Res("fail", "invalid_base64", "", NoPath)]]
                  /\ fs' = fs
             ELSE IF ~v.ok
             THEN /\ req' = [req EXCEPT ![r] = [c EXCEPT !.pc = "done",
                               !.result = Res("fail", v.why, "", NoPath)]]
                  /\ fs' = fs
             ELSE /\ req' = [req EXCEPT ![r] =
                               save_uploaded_file([c EXCEPT !.data = d.data], t, written)]
                  /\ fs' = IF written THEN Put(fs, p, d.data, "staged")
                           ELSE PutPartial(fs, p, "staged")
    /\ UNCHANGED <<now, ticks>>

\* convert_file_from_base64 called with a plain file name
B64Call(r) == B64CallOn(r, Filenames)

\* convert_file_from_base64 called with a file name that has a directory part
B64CallDir(r) == B64CallOn(r, DirFilenames)

\* lines 90-98: MarkItDown converts the staged file; any exception becomes
\* the "Conversion failed" message
B64Convert(r) ==
    /\ At(r, "convert_file_from_base64", "convert")
    /\ req' = [req EXCEPT
         ![r].pc = "cleanup",
         ![r].backend = Append(@, "markitdown"),
         ![r].reads = IF Exists(fs, req[r].temp) THEN @ \cup {Resolve(req[r].temp)} ELSE @,
         ![r].result = IF Convertible(fs, req[r].temp)
                       THEN Res("ok", "", MarkItDownText(fs, req[r].temp), NoPath)
                       ELSE Res("fail", "conversion_failed", "", NoPath)]
    /\ UNCHANGED <<fs, calls, now, ticks>>

\* lines 99-105: the finally block; os.remove may fail, which is logged only
B64Cleanup(r) ==
    /\ At(r, "convert_file_from_base64", "cleanup")
    /\ \E removed \in BOOLEAN :
         /\ fs' = IF Exists(fs, req[r].temp) /\ removed THEN Remove(fs, req[r].temp) ELSE fs
         /\ req' = [req EXCEPT ![r].pc = "done",
                               ![r].release_failed = Exists(fs, req[r].temp) /\ ~removed]
    /\ UNCHANGED <<calls, now, ticks>>

(* -------------- improved_mcp_server.convert_file_from_path ------------- *)
\* server paths handed to the path-based tools: an existing file, one that
\* leaves /tmp through "..", one outside the roots, a symbolic link in /tmp
\* to a file outside, a missing file and a file of an unsupported type
PathInputs ==
    { MkPath(<<"tmp">>, "a", 0, 0, ".txt"),
      MkPath(<<"tmp", "..", "etc">>, "secret", 0, 0, ".txt"),
      MkPath(<<"etc">>, "secret", 0, 0, ".txt"),
      MkPath(<<"tmp">>, "link", 0, 0, ".txt"),
      MkPath(<<"tmp">>, "missing", 0, 0, ".exe"),
      MkPath(<<"tmp">>, "b", 0, 0, ".exe") }

OutputNames == {"", "out"}

\* lines 142-149: <output_name or Path(file_path).stem>_<uuid4().hex[:8]>.md
OutputPath(file_path, output_name, t) ==
    IF output_name # ""
    THEN MkPath(OUTPUT_DIR, output_name, 0, t, ".md")
    ELSE MkPath(OUTPUT_DIR, file_path.base, file_path.pre, t, ".md")

\* lines 120-136: the allow-list check on os.path.abspath, the existence
\* check, then validation of os.path.getsize and os.path.basename
PathCall(r) ==
    /\ NewCall(r)
    /\ \E file_path \in PathInputs, output_name \in OutputNames :
         LET c == Call("convert_file_from_path", file_path, NoPayload, output_name)
             v == validate_file_content(Basename(file_path), fs[Resolve(file_path)].data.size)
         IN  req' = [req EXCEPT ![r] =
                 IF ~InAllowedRoot(abspath(file_path))
                 THEN [c EXCEPT !.pc = "done",
                                !.result = Res("fail", "access_denied", "", NoPath)]
                 ELSE IF ~Exists(fs, file_path)
                 THEN [c EXCEPT !.pc = "done",
                                !.result = Res("fail", "not_accessible", "", NoPath)]
                 ELSE IF ~v.ok
                 THEN [c EXCEPT !.pc = "done",
                                !.result = Res("fail", v.why, "", NoPath)]
                 ELSE [c EXCEPT !.pc = "convert"]]
    /\ UNCHANGED <<fs, now, ticks>>

\* lines 139-140 (and 158-160 when the backend raises)
PathConvert(r) ==
    /\ At(r, "convert_file_from_path", "convert")
    /\ LET p == req[r].filename
       IN  req' = [req EXCEPT
             ![r].backend = Append(@, "markitdown"),
             ![r].reads = IF Exists(fs, p) THEN @ \cup {Resolve(p)} ELSE @,
             ![r].pc = IF Convertible(fs, p) THEN "write" ELSE "done",
             ![r].data = IF Convertible(fs, p) THEN fs[Resolve(p)].data ELSE @,
             ![r].result = IF Convertible(fs, p) THEN @
                           ELSE Res("fail", "conversion_failed", "", NoPath)]
    /\ UNCHANGED <<fs, calls, now, ticks>>

\* lines 142-156: the output file is opened under a fresh uuid and written;
\* the message names the output path (and does not carry the text)
PathWrite(r) ==
    /\ At(r, "convert_file_from_path", "write")
    /\ \E t \in uuid4(fs), written \in BOOLEAN :
         LET o == OutputPath(req[r].filename, req[r].output_name, t)
         IN  /\ fs' = IF written THEN Put(fs, o, req[r].data, "artifact")
                      ELSE PutPartial(fs, o, "artifact")
             /\ req' = [req EXCEPT
                   ![r].pc = "done",
                   ![r].wrote = @ \cup {Resolve(o)},
                   ![r].over = @ \cup Over(fs, o),
                   ![r].result = IF written THEN Res("ok", "", "", o)
                                 ELSE Res("fail", "conversion_failed", "", NoPath)]
    /\ UNCHANGED <<calls, now, ticks>>

(* ------------------- server.convert_file_to_markdown ------------------- *)
\* a selection that compares the extension as it is written
SelectBackendCaseSensitive(p) == IF p.ext = ".pdf" THEN "docling" ELSE "markitdown"

\* lines 31-40: docling for .pdf (compared in lower case), MarkItDown otherwise
SelectBackend(p) == IF Lower(p.ext) = ".pdf" THEN "docling" ELSE "markitdown"

\* the tool called by path: nothing is checked before line 24
ToMdCall(r) ==
    /\ NewCall(r)
    /\ \E file_path \in PathInputs :
         req' = [req EXCEPT ![r] =
                   [Call("convert_file_to_markdown", file_path, NoPayload, "")
                      EXCEPT !.pc = "convert", !.temp = file_path]]
    /\ UNCHANGED <<fs, now, ticks>>

\* lines 24-40, for both tools of server.py: a missing file raises
\* FileNotFoundError, a backend error leaves the function as it is
ToMdConvert(r) ==
    /\ Ready /\ req[r].pc = "convert"
    /\ req[r].op \in {"convert_file_to_markdown", "convert_file_content_to_markdown"}
    /\ LET p == req[r].temp
       IN  req' = [req EXCEPT ![r] =
             IF ~Exists(fs, p)
             THEN [@ EXCEPT !.pc = "done",
                            !.result = Res("raise", "FileNotFoundError", "", NoPath)]
             ELSE IF ~Convertible(fs, p)
             THEN [@ EXCEPT !.pc = "done",
                            !.backend = Append(@, SelectBackend(p)),
                            !.reads = @ \cup {Resolve(p)},
                            !.result = Res("raise", "conversion_error", "", NoPath)]
             ELSE [@ EXCEPT !.pc = "write",
                            !.backend = Append(@, SelectBackend(p)),
                            !.reads = @ \cup {Resolve(p)},
                            !.data = fs[Resolve(p)].data]]
    /\ UNCHANGED <<fs, calls, now, ticks>>

\* lines 42-47: the Markdown goes next to the input, under the input's name
\* with the suffix .md; the value names that file and carries the text
ToMdWrite(r) ==
    /\ Ready /\ req[r].pc = "write"
    /\ req[r].op \in {"convert_file_to_markdown", "convert_file_content_to_markdown"}
    /\ \E written \in BOOLEAN :
         LET o == WithSuffixMd(req[r].temp)
         IN  /\ fs' = IF written THEN Put(fs, o, req[r].data, "artifact")
                      ELSE PutPartial(fs, o, "artifact")
             /\ req' = [req EXCEPT
                   ![r].wrote = @ \cup {Resolve(o)},
                   ![r].over = @ \cup Over(fs, o),
                   ![r].pc = IF written /\ req[r].op = "convert_file_content_to_markdown"
                             THEN "unlink" ELSE "done",
                   ![r].result = IF written THEN Res("ok", "", req[r].data.body, o)
                                 ELSE Res("raise", "OSError", "", NoPath)]
    /\ UNCHANGED <<calls, now, ticks>>

(* --------------- server.convert_file_content_to_markdown --------------- *)
\* lines 65-80: input_path = output_dir / filename (output_dir "/tmp"); the
\* decoded bytes are written, and when decoding or that write fails the
\* bare except writes the content as text; a failure there leaves the call;
\* the file name is one of names
SCCallOn(r, names) ==
    /\ NewCall(r)
    /\ \E filename \in names, payload \in SmallPayloads,
          w1 \in BOOLEAN, w2 \in BOOLEAN :
         LET d == b64decode(payload)
             c == Call("convert_file_content_to_markdown", filename, payload, "")
             p == JoinPath(TMP_DIR, filename)
             s == [c EXCEPT !.temp = p, !.staged = {Resolve(p)}, !.over = Over(fs, p),
                            !.stage_failed = (d.ok /\ ~w1) \/ (~(d.ok /\ w1) /\ ~w2)]
         IN  IF d.ok /\ w1
             THEN /\ fs' = Put(fs, p, d.data, "staged")
                  /\ req' = [req EXCEPT ![r] = [s EXCEPT !.pc = "convert"]]
             ELSE IF w2
             THEN /\ fs' = Put(fs, p, AsText(payload), "staged")
                  /\ req' = [req EXCEPT ![r] = [s EXCEPT !.pc = "convert"]]
             ELSE /\ fs' = PutPartial(fs, p, "staged")
                  /\ req' = [req EXCEPT ![r] = [s EXCEPT !.pc = "done",
                               !.result = Res("raise", "OSError", "", NoPath)]]
    /\ UNCHANGED <<now, ticks>>

\* convert_file_content_to_markdown called with a plain file name
SCCall(r) == SCCallOn(r, ServerFilenames)

\* convert_file_content_to_markdown called with a file name that has a
\* directory part
SCCallDir(r) == SCCallOn(r, DirFilenames)

\* lines 85-91: unlink, errors ignored, then the result of line 83
SCUnlink(r) ==
    /\ At(r, "convert_file_content_to_markdown", "unlink")
    /\ \E removed \in BOOLEAN :
         /\ fs' = IF Exists(fs, req[r].temp) /\ removed THEN Remove(fs, req[r].temp) ELSE fs
         /\ req' = [req EXCEPT ![r].pc = "done",
                               ![r].release_failed = ~Exists(fs, req[r].temp) \/ ~removed]
    /\ UNCHANGED <<calls, now, ticks>>

(* ------------------------------- mcp_test ------------------------------ *)
\* tempfile.NamedTemporaryFile(delete=False, suffix=suffix): tmp<random><suffix>
TempPath(filename, t) == MkPath(TMP_DIR, "tmp", 0, t, filename.ext)

\* mcp_test.convert_file_from_path, lines 55-58
TPathCall(r) ==
    /\ NewCall(r)
    /\ \E file_path \in PathInputs :
         LET c == Call("test.convert_file_from_path", file_path, NoPayload, "")
         IN  req' = [req EXCEPT ![r] =
                 IF ~Exists(fs, file_path)
                 THEN [c EXCEPT !.pc = "done",
                                !.result = Res("raise", "FileNotFoundError", "", NoPath)]
                 ELSE [c EXCEPT !.pc = "convert", !.temp = file_path]]
    /\ UNCHANGED <<fs, now, ticks>>

\* mcp_test.convert_file_from_base64, lines 76-85: a payload that does not
\* decode raises; the temporary file is created under a name that is not in
\* use (O_EXCL), and a failing write leaves it behind with tmp_path unset
TB64Call(r) ==
    /\ NewCall(r)
    /\ \E filename \in Filenames, payload \in SmallPayloads,
          t \in uuid4(fs), written \in BOOLEAN :
         LET d == b64decode(payload)
             c == Call("test.convert_file_from_base64", filename, payload, "")
             p == TempPath(filename, t)
         IN  IF ~d.ok
             THEN /\ fs' = fs
                  /\ req' = [req EXCEPT ![r] = [c EXCEPT !.pc = "done",
                               !.result = Res("raise", "binascii.Error", "", NoPath)]]
             ELSE /\ ~Exists(fs, p)
                  /\ fs' = IF written THEN Put(fs, p, d.data, "staged")
                           ELSE PutPartial(fs, p, "staged")
                  /\ req' = [req EXCEPT ![r] =
                       IF written
                       THEN [c EXCEPT !.pc = "convert", !.temp = p, !.staged = {Resolve(p)}]
                       ELSE [c EXCEPT !.pc = "done", !.staged = {Resolve(p)},
                                      !.stage_failed = TRUE,
                                      !.result = Res("raise", "OSError", "", NoPath)]]
    /\ UNCHANGED <<now, ticks>>

\* convert_file_to_md (33-39) as called at lines 59 and 88: the backend's
\* error is raised again and leaves the tool
TConvert(r) ==
    /\ Ready /\ req[r].pc = "convert"
    /\ req[r].op \in {"test.convert_file_from_path", "test.convert_file_from_base64"}
    /\ req' = [req EXCEPT
         ![r].pc = IF req[r].op = "test.convert_file_from_base64" THEN "cleanup" ELSE "done",
         ![r].backend = Append(@, "markitdown"),
         ![r].reads = IF Exists(fs, req[r].temp) THEN @ \cup {Resolve(req[r].temp)} ELSE @,
         ![r].result = IF Convertible(fs, req[r].temp)
                       THEN Res("ok", "", MarkItDownText(fs, req[r].temp), NoPath)
                       ELSE Res("raise", "conversion_error", "", NoPath)]
    /\ UNCHANGED <<fs, calls, now, ticks>>

\* lines 92-98: the finally block of convert_file_from_base64
TB64Cleanup(r) ==
    /\ At(r, "test.convert_file_from_base64", "cleanup")
    /\ \E removed \in BOOLEAN :
         /\ fs' = IF Exists(fs, req[r].temp) /\ removed THEN Remove(fs, req[r].temp) ELSE fs
         /\ req' = [req EXCEPT ![r].pc = "done",
                               ![r].release_failed = Exists(fs, req[r].temp) /\ ~removed]
    /\ UNCHANGED <<calls, now, ticks>>

(* ----------------------- git_server.convert_folder --------------------- *)
\* folders handed to convert_folder: one that exists and one that does not
FolderInputs == { <<"repo">>, <<"nowhere">> }

\* os.path.isdir: a directory is there when a file lies in it or below it
IsDir(f, d) ==
    \E k \in DOMAIN f : Len(k.dir) >= Len(d) /\ SubSeq(k.dir, 1, Len(d)) = d

\* the entries of os.listdir(d) that os.path.isfile accepts
ListFiles(f, d) == {k \in DOMAIN f : k.dir = d}

\* os.path.join(output_dir, f"{os.path.splitext(filename)[0]}.md")
FolderOutput(d, k) == MkPath(d \o <<"markdown_output">>, k.base, k.pre, k.post, ".md")

\* lines 15-26: abspath, the isdir check, makedirs, and the directory listing
FolderCall(r) ==
    /\ NewCall(r)
    /\ \E folder_path \in FolderInputs :
         LET d == NormDir(folder_path)
             c == Call("convert_folder", MkPath(d, "", 0, 0, ""), NoPayload, "")
         IN  req' = [req EXCEPT ![r] =
                 IF ~IsDir(fs, d)
                 THEN [c EXCEPT !.pc = "done",
                                !.result = Res("fail", "not_a_folder", "", NoPath)]
                 ELSE IF ListFiles(fs, d) = {}
                 THEN [c EXCEPT !.pc = "done",
                                !.result = Res("ok", "", "", MkPath(d, "markdown_output", 0, 0, ""))]
                 ELSE [c EXCEPT !.pc = "folder", !.listing = ListFiles(fs, d)]]
    /\ UNCHANGED <<fs, now, ticks>>

\* lines 26-43, one entry of the listing (os.listdir gives them in any
\* order): MarkItDown converts it and the text is written to
\* markdown_output/<stem>.md; any exception puts the file on the skipped
\* list; after the last entry the summary counts the processed list
FolderFile(r) ==
    /\ At(r, "convert_folder", "folder")
    /\ \E k \in req[r].listing, written \in BOOLEAN :
         LET d == req[r].filename.dir
             o == FolderOutput(d, k)
             rest == req[r].listing \ {k}
             isfile == k \in DOMAIN fs
             converted == isfile /\ Convertible(fs, k) /\ written
             c == [req[r] EXCEPT
                     !.listing = rest,
                     !.backend = IF isfile THEN Append(@, "markitdown") ELSE @,
                     !.reads = IF isfile THEN @ \cup {k} ELSE @,
                     !.processed = IF converted THEN @ \cup {k} ELSE @,
                     !.skipped = IF isfile /\ ~converted THEN @ \cup {k} ELSE @,
                     !.count = IF converted THEN @ + 1 ELSE @,
                     !.wrote = IF converted THEN @ \cup {Resolve(o)} ELSE @,
                     !.over = IF isfile /\ Convertible(fs, k) THEN @ \cup Over(fs, o) ELSE @]
         IN  /\ fs' = IF converted THEN Put(fs, o, fs[k].data, "artifact")
                      ELSE IF isfile /\ Convertible(fs, k) THEN PutPartial(fs, o, "artifact")
                      ELSE fs
             /\ req' = [req EXCEPT ![r] =
                   IF rest # {} THEN c
                   ELSE [c EXCEPT !.pc = "done",
                                  !.result = Res("ok", "", "", MkPath(d, "markdown_output", 0, 0, ""))]]
    /\ UNCHANGED <<calls, now, ticks>>

(* -------------- improved_mcp_server.validate_file_content -------------- *)
\* file names given to the validator: accepted types in lower and upper
\* case, types outside the set, no extension, and the dot file ".pdf", whose
\* Path.suffix is empty
ValidateNames ==
    { MkPath(<<>>, "a", 0, 0, ".txt"),
      MkPath(<<>>, "a", 0, 0, ".TXT"),
      MkPath(<<>>, "a", 0, 0, ".PDF"),
      MkPath(<<>>, "a", 0, 0, ".docx"),
      MkPath(<<>>, "a", 0, 0, ".exe"),
      MkPath(<<>>, "a", 0, 0, ".md"),
      MkPath(<<>>, "a", 0, 0, ""),
      MkPath(<<>>, ".pdf", 0, 0, "") }

\* content sizes given to the validator, around 0 and around the maximum
ValidateSizes ==
    { 0, 1, 12, MAX_FILE_SIZE - 1, MAX_FILE_SIZE, MAX_FILE_SIZE + 1, 2 * MAX_FILE_SIZE }

\* lines 30-45, the function called on its own: it reads its two arguments
\* and the two module constants, and returns (is_valid, message)
ValidateCall(r) ==
    /\ NewCall(r)
    /\ \E filename \in ValidateNames, content_size \in ValidateSizes :
         LET v == validate_file_content(filename, content_size)
             c == Call("validate_file_content", filename, NoPayload, "")
         IN  req' = [req EXCEPT ![r] =
                 [c EXCEPT !.pc = "done",
                           !.data = Data("", content_size),
                           !.result = Res(IF v.ok THEN "ok" ELSE "fail", v.why, "", NoPath)]]
    /\ UNCHANGED <<fs, now, ticks>>

(* ---------------- improved_mcp_server.cleanup_old_files ----------------- *)
\* the names the module os defines, as far as this program uses them; the
\* module has no attribute "time" and the program does not import time
OsAttributes == {"path", "walk", "remove", "makedirs", "access", "R_OK"}

\* the artifacts of the output area
Artifacts(f) == {k \in DOMAIN f : k.dir = OUTPUT_DIR}

\* line 201: os.path.getctime(file_path) < (os.time.time() - 3600)
IsOld(f, k, t) == f[k].ctime < t - RETENTION

\* lines 195-197: os.walk lists the output directory once
SweepCall(r) ==
    /\ NewCall(r)
    /\ LET c == Call("cleanup_old_files", NoPath, NoPayload, "")
       IN  req' = [req EXCEPT ![r] =
             IF Artifacts(fs) = {}
             THEN [c EXCEPT !.pc = "done", !.result = Res("ok", "", "", NoPath)]
             ELSE [c EXCEPT !.pc = "sweep", !.listing = Artifacts(fs)]]
    /\ UNCHANGED <<fs, now, ticks>>

\* lines 198-206, one file of the listing: getctime raises when the file is
\* gone, the look-up of os.time raises AttributeError; either ends the loop
\* in the except clause of line 205
SweepFile(r) ==
    /\ At(r, "cleanup_old_files", "sweep")
    /\ \E k \in req[r].listing :
         LET rest == req[r].listing \ {k}
             failed(e) == [req[r] EXCEPT !.pc = "done",
                             !.result = Res("fail", e, "", NoPath)]
             next(n, gone) ==
                 [req[r] EXCEPT !.listing = rest, !.count = n,
                                !.removed = @ \cup gone,
                                !.pc = IF rest = {} THEN "done" ELSE "sweep",
                                !.result = IF rest = {} THEN Res("ok", "", "", NoPath) ELSE @]
         IN  IF k \notin DOMAIN fs
             THEN /\ req' = [req EXCEPT ![r] = failed("FileNotFoundError")]
                  /\ fs' = fs
             ELSE IF "time" \notin OsAttributes
             THEN /\ req' = [req EXCEPT ![r] = failed("AttributeError")]
                  /\ fs' = fs
             ELSE IF IsOld(fs, k, now)
             THEN /\ req' = [req EXCEPT ![r] = next(req[r].count + 1, {k})]
                  /\ fs' = Remove(fs, k)
             ELSE /\ req' = [req EXCEPT ![r] = next(req[r].count, {})]
                  /\ fs' = fs
    /\ UNCHANGED <<calls, now, ticks>>

(* ----------------------------- environment ----------------------------- *)
\* an external consumer takes an artifact out of the output area
Consume ==
    /\ Ready
    /\ \E k \in Artifacts(fs) : fs' = Remove(fs, k)
    /\ UNCHANGED <<req, calls, now, ticks>>

\* time passes (half an hour at a time)
Tick ==
    /\ Ready
    /\ ticks < MaxTicks
    /\ ticks' = ticks + 1
    /\ now' = now + 1800
    /\ UNCHANGED <<fs, req, calls>>

(* ------------------------------ scheduling ----------------------------- *)
\* the value (or the exception) has been delivered: the worker is free again
Return(r) ==
    /\ req[r].pc = "done"
    /\ req' = [req EXCEPT ![r] = IdleReq]
    /\ UNCHANGED <<fs, calls, now, ticks>>

\* the conversion tools of the three servers
Next ==
    \E r \in Reqs :
        \/ B64Call(r) \/ B64Convert(r) \/ B64Cleanup(r)
        \/ PathCall(r) \/ PathConvert(r) \/ PathWrite(r)
        \/ ToMdCall(r) \/ ToMdConvert(r) \/ ToMdWrite(r)
        \/ SCCall(r) \/ SCUnlink(r)
        \/ TPathCall(r) \/ TB64Call(r) \/ TConvert(r) \/ TB64Cleanup(r)
        \/ Return(r)

Spec == Init /\ [][Next]_vars

\* improved_mcp_server alone
NextImproved ==
    \E r \in Reqs :
        \/ B64Call(r) \/ B64Convert(r) \/ B64Cleanup(r)
        \/ PathCall(r) \/ PathConvert(r) \/ PathWrite(r)
        \/ Return(r)

SpecImproved == Init /\ [][NextImproved]_vars

\* server.py alone
NextServer ==
    \E r \in Reqs :
        \/ ToMdCall(r) \/ ToMdConvert(r) \/ ToMdWrite(r)
        \/ SCCall(r) \/ SCUnlink(r)
        \/ Return(r)

SpecServer == Init /\ [][NextServer]_vars

\* the content-based tools of improved_mcp_server and server
NextContent ==
    \E r \in Reqs :
        \/ B64Call(r) \/ B64Convert(r) \/ B64Cleanup(r)
        \/ SCCall(r) \/ ToMdConvert(r) \/ ToMdWrite(r) \/ SCUnlink(r)
        \/ Return(r)

SpecContent == Init /\ [][NextContent]_vars

\* the content-based tools again, called with every kind of file name
NextStaging ==
    \E r \in Reqs :
        \/ B64Call(r) \/ B64CallDir(r) \/ B64Convert(r) \/ B64Cleanup(r)
        \/ SCCall(r) \/ SCCallDir(r) \/ ToMdConvert(r) \/ ToMdWrite(r) \/ SCUnlink(r)
        \/ Return(r)

SpecStaging == Init /\ [][NextStaging]_vars

\* the output area of improved_mcp_server: its writers, the sweep, an
\* external consumer, and time
NextSweep ==
    \/ \E r \in Reqs :
        \/ PathCall(r) \/ PathConvert(r) \/ PathWrite(r)
        \/ SweepCall(r) \/ SweepFile(r)
        \/ Return(r)
    \/ Consume
    \/ Tick

SpecSweep == Init /\ [][NextSweep]_vars

\* git_server alone
NextFolder == \E r \in Reqs : FolderCall(r) \/ FolderFile(r) \/ Return(r)

SpecFolder == Init /\ [][NextFolder]_vars

\* the validator called on its own
NextValidate == \E r \in Reqs : ValidateCall(r) \/ Return(r)

SpecValidate == Init /\ [][NextValidate]_vars

(* ------------------------------- claims -------------------------------- *)
ContentOps ==
    {"convert_file_from_base64", "convert_file_content_to_markdown",
     "test.convert_file_from_base64"}

PathOps ==
    {"convert_file_from_path", "convert_file_to_markdown", "test.convert_file_from_path"}

ImprovedOps == {"convert_file_from_base64", "convert_file_from_path"}

Active(r) == req[r].pc # "idle"

Unsupported(filename) == Lower(filename.ext) \notin ALLOWED_EXTENSIONS

Oversize(payload) == B64Valid(payload) /\ B64Size(payload) > MAX_FILE_SIZE

\* C1: when a content-based conversion call ends, whatever the exit path,
\* no file the call staged is left behind.
C1_StagedInputReleased ==
    \A r \in Reqs :
        Done(r) /\ req[r].op \in ContentOps => req[r].staged \cap DOMAIN fs = {}

\* C2: every conversion entry point ends every call with a value, a success
\* or a failure message; no call ends with an exception.
C2_NoCallRaises ==
    \A r \in Reqs :
        Done(r) /\ req[r].op \in ContentOps \cup PathOps
            => req[r].result.kind \in {"ok", "fail"}

\* C3 as stated: a call of improved_mcp_server whose file name has no
\* accepted extension returns the unsupported-type failure, writes no file
\* and invokes no backend.
C3_UnsupportedAlwaysReported ==
    \A r \in Reqs :
        Done(r) /\ req[r].op \in ImprovedOps /\ Unsupported(req[r].filename)
            => /\ req[r].result.kind = "fail"
               /\ req[r].result.why = "unsupported_type"
               /\ req[r].staged = {} /\ req[r].wrote = {} /\ req[r].backend = <<>>

\* the failure a call of improved_mcp_server gives for a file name without
\* accepted extension: the checks made before validation come first
C3Reason(c) ==
    IF c.op = "convert_file_from_base64"
    THEN IF B64Valid(c.payload) THEN "unsupported_type" ELSE "invalid_base64"
    ELSE IF ~InAllowedRoot(abspath(c.filename)) THEN "access_denied"
    ELSE IF ~Exists(fs, c.filename) THEN "not_accessible"
    ELSE "unsupported_type"

\* C3 as amended: such a call returns a failure, writes no file and invokes
\* no backend; the failure is the unsupported-type one when the payload
\* decodes (content) or the path is under an allowed root and names an
\* existing file (path), and otherwise the failure of that earlier check.
C3_UnsupportedRejected ==
    \A r \in Reqs :
        Active(r) /\ req[r].op \in ImprovedOps /\ Unsupported(req[r].filename)
            => /\ Done(r)
               /\ req[r].result.kind = "fail"
               /\ req[r].result.why = C3Reason(req[r])
               /\ req[r].staged = {} /\ req[r].wrote = {} /\ req[r].backend = <<>>

\* C3's case: a decodable payload under an unsupported name has been rejected
C3_Witness ==
    \E r \in Reqs :
        /\ Done(r) /\ req[r].op = "convert_file_from_base64"
        /\ req[r].filename.ext = ".exe" /\ B64Valid(req[r].payload)
        /\ req[r].result.why = "unsupported_type"

\* C4: a convert_file_from_base64 call of improved_mcp_server whose decoded
\* payload is larger than the maximum never stages a file and never invokes
\* a backend, at any point of the call, and ends with a failure.
C4_OversizeNeverStaged ==
    \A r \in Reqs :
        Active(r) /\ req[r].op = "convert_file_from_base64" /\ Oversize(req[r].payload)
            => /\ Done(r)
               /\ req[r].result.kind = "fail"
               /\ req[r].staged = {} /\ req[r].temp = NoPath /\ req[r].backend = <<>>

\* C4's case: an oversize payload under an accepted name has been rejected
C4_Witness ==
    \E r \in Reqs :
        /\ Done(r) /\ req[r].op = "convert_file_from_base64"
        /\ Oversize(req[r].payload) /\ ~Unsupported(req[r].filename)
        /\ req[r].result.why = "too_large"

\* C5: a convert_file_from_path call of improved_mcp_server on a path that
\* resolves (".." and symbolic links followed) outside /tmp/ and /shared/ is
\* denied: the file is never read, no backend runs, nothing is written.
C5_OutsideRootsDenied ==
    \A r \in Reqs :
        Active(r) /\ req[r].op = "convert_file_from_path"
                  /\ ~InAllowedRoot(Resolve(req[r].filename))
            => /\ Done(r)
               /\ req[r].result = Res("fail", "access_denied", "", NoPath)
               /\ req[r].reads = {} /\ req[r].backend = <<>> /\ req[r].wrote = {}

\* C6: two content-based calls in flight never hold the same staged path.
C6_StagedPathsDistinct ==
    \A r, q \in Reqs :
        /\ r # q /\ Busy(r) /\ Busy(q)
        /\ req[r].op \in ContentOps /\ req[q].op \in ContentOps
        => req[r].staged \cap req[q].staged = {}

\* C7 as stated: in both content-based entry points a payload that does not
\* decode ends the call at once with a failure, nothing staged, no backend.
C7_UndecodableFailsAtOnce ==
    \A r \in Reqs :
        /\ Active(r) /\ ~B64Valid(req[r].payload)
        /\ req[r].op \in {"convert_file_from_base64", "convert_file_content_to_markdown"}
        => /\ Done(r)
           /\ req[r].result.kind = "fail"
           /\ req[r].staged = {} /\ req[r].backend = <<>>

\* C7 as amended: convert_file_from_base64 (improved_mcp_server) ends at
\* once with the invalid-base64 failure, nothing staged, no backend;
\* convert_file_content_to_markdown (server) reports no decoding failure:
\* it stages the payload as text under output_dir/filename.
C7_UndecodableByEntryPoint ==
    \A r \in Reqs :
        Active(r) /\ ~B64Valid(req[r].payload) =>
            /\ req[r].op = "convert_file_from_base64"
                => /\ Done(r)
                   /\ req[r].result = Res("fail", "invalid_base64", "", NoPath)
                   /\ req[r].staged = {} /\ req[r].wrote = {} /\ req[r].backend = <<>>
            /\ req[r].op = "convert_file_content_to_markdown"
                => /\ req[r].staged = {Resolve(JoinPath(TMP_DIR, req[r].filename))}
                   /\ req[r].result.kind # "fail"

\* C7's case: an undecodable payload has been refused by improved_mcp_server
C7_Witness ==
    \E r \in Reqs :
        /\ Done(r) /\ req[r].op = "convert_file_from_base64"
        /\ ~B64Valid(req[r].payload) /\ ~Unsupported(req[r].filename)
        /\ req[r].result.why = "invalid_base64"

\* C8: a finished sweep has removed exactly the artifacts older than the
\* retention window and reports how many: with the artifacts aged 30, 61
\* and 120 minutes it reports 2 and only the youngest is left.
C8_SweepRemovesOld ==
    \A r \in Reqs :
        Done(r) /\ req[r].op = "cleanup_old_files"
            => /\ req[r].result.kind = "ok"
               /\ req[r].count = Cardinality(req[r].removed)
               /\ \A k \in Artifacts(InitFs) :
                      IsOld(InitFs, k, StartTime) => k \notin DOMAIN fs

\* C9: an artifact that someone else removed while the sweep was under way
\* is not an error for the sweep.
C9_VanishedArtifactIsNoError ==
    \A r \in Reqs :
        Done(r) /\ req[r].op = "cleanup_old_files"
            => req[r].result.why # "FileNotFoundError"

\* C10: a successful path-based conversion writes its output under a name
\* no other call's artifact uses: it overwrites no artifact, and its own
\* artifact is in place when it returns.
C10_ArtifactsNotOverwritten ==
    \A r \in Reqs :
        /\ Done(r) /\ req[r].result.kind = "ok"
        /\ req[r].op \in {"convert_file_from_path", "convert_file_to_markdown"}
        => /\ \A o \in req[r].over : o.role # "artifact"
           /\ req[r].wrote \subseteq DOMAIN fs

\* C11: the value of a successful path-based conversion carries the output
\* location and the converted text; the value of a successful content-based
\* conversion carries the converted text.
C11_SuccessCarriesTextAndLocation ==
    \A r \in Reqs :
        Done(r) /\ req[r].result.kind = "ok" =>
            /\ req[r].op \in {"convert_file_from_path", "convert_file_to_markdown"}
                => req[r].result.loc # NoPath /\ req[r].result.text # ""
            /\ req[r].op \in {"convert_file_from_base64", "convert_file_content_to_markdown"}
                => req[r].result.text # ""

\* the staging directory of a content-based tool
StagingDir(op) == IF op = "convert_file_from_base64" THEN UPLOAD_DIR ELSE TMP_DIR

\* C12: every file a content-based conversion stages lies directly in the
\* staging directory, under a name that differs from the last component of
\* the caller-supplied file name, whatever that file name is.
C12_StagedInsideUnderDerivedName ==
    \A r \in Reqs :
        /\ Active(r)
        /\ req[r].op \in {"convert_file_from_base64", "convert_file_content_to_markdown"}
        => \A k \in req[r].staged :
               /\ k.dir = StagingDir(req[r].op)
               /\ Basename(k) # Basename(req[r].filename)

\* C13: a failing removal of the staged file changes nothing in what the
\* call returns, a value and no exception; a failing write of the staged
\* file ends the call with a failure value and no backend invocation.
C13_ReleaseSwallowedStagingAborts ==
    \A r \in Reqs :
        /\ Done(r)
        /\ req[r].op \in {"convert_file_from_base64", "convert_file_content_to_markdown"}
        => /\ req[r].release_failed
                => \/ req[r].result.kind = "ok" /\ req[r].result.text # ""
                   \/ req[r].result.kind = "fail"
           /\ req[r].stage_failed
                => req[r].result.kind = "fail" /\ req[r].backend = <<>>

ServerOps == {"convert_file_to_markdown", "convert_file_content_to_markdown"}

\* C14: a call of server.py invokes at most one backend, and the one it
\* invokes is docling exactly when the extension of the file name, in lower
\* case, is .pdf, and MarkItDown for every other extension; a call that got
\* as far as writing its output has invoked one.
C14_BackendByExtension ==
    \A r \in Reqs :
        Active(r) /\ req[r].op \in ServerOps =>
            /\ Len(req[r].backend) <= 1
            /\ req[r].backend # <<>> =>
                  req[r].backend[1] = IF Lower(req[r].filename.ext) = ".pdf"
                                      THEN "docling" ELSE "markitdown"
            /\ req[r].pc \in {"write", "unlink"} \/ req[r].result.kind = "ok"
                  => Len(req[r].backend) = 1

\* C14's case: a.PDF, given as content, has been converted by docling
C14_Witness ==
    \E r \in Reqs :
        /\ Done(r) /\ req[r].op = "convert_file_content_to_markdown"
        /\ req[r].filename.ext = ".PDF" /\ req[r].result.kind = "ok"
        /\ req[r].backend = <<"docling">>

\* C15: validate_file_content accepts exactly when the extension, in lower
\* case, is in the accepted set and the size is at most the maximum (so the
\* maximum itself and 0 are accepted and a name without extension is
\* rejected); when both checks fail the reason is the unsupported type; the
\* file system is as it was.
C15_ValidatorDecision ==
    /\ fs = InitFs
    /\ \A r \in Reqs :
         Done(r) /\ req[r].op = "validate_file_content" =>
            LET okext == Lower(req[r].filename.ext) \in ALLOWED_EXTENSIONS
                oksize == req[r].data.size <= MAX_FILE_SIZE
            IN  /\ req[r].result.kind = (IF okext /\ oksize THEN "ok" ELSE "fail")
                /\ ~okext => req[r].result.why = "unsupported_type"
                /\ okext /\ ~oksize => req[r].result.why = "too_large"
                /\ req[r].filename.ext = "" => req[r].result.kind = "fail"

\* C15's case: a .txt name with exactly the maximum size has been accepted
C15_Witness ==
    \E r \in Reqs :
        /\ Done(r) /\ req[r].op = "validate_file_content"
        /\ req[r].filename.ext = ".txt" /\ req[r].data.size = MAX_FILE_SIZE
        /\ req[r].result.kind = "ok"

\* C16: the conversion requests leave every file that was on the server
\* before them as it was: none is overwritten, none is deleted.
C16_PreexistingFilesUntouched ==
    \A k \in DOMAIN InitFs : k \in DOMAIN fs /\ fs[k] = InitFs[k]

\* C17: when convert_file_content_to_markdown returns a success value, the
\* Markdown file the value names is on the file system.
C17_NamedOutputExists ==
    \A r \in Reqs :
        /\ Done(r) /\ req[r].op = "convert_file_content_to_markdown"
        /\ req[r].result.kind = "ok"
        => Exists(fs, req[r].result.loc)

\* C18: when convert_folder has returned its summary, the number of files it
\* reports as converted is the number of distinct Markdown files it wrote,
\* and every file of the folder is on its processed list or its skipped list.
C18_ConvertedCountIsOutputCount ==
    \A r \in Reqs :
        Done(r) /\ req[r].op = "convert_folder" /\ req[r].result.kind = "ok"
            => /\ req[r].count = Cardinality(req[r].wrote)
               /\ req[r].processed \cup req[r].skipped
                     = ListFiles(InitFs, req[r].filename.dir)

====
